---- MODULE Spec2Model ----
(***************************************************************************)
(* A model of src/train.py: DatasetHandler (download_dataset,              *)
(* unzip_dataset, load_split_data), DeepfakeDetectorModel (train_model     *)
(* with its three callbacks, evaluate_model, save_model) and               *)
(* TrainModel.run_training.                                                *)
(*                                                                         *)
(* The filesystem is the only state that outlives a call.  Validation      *)
(* losses are finite and counted in units of 1e-4 (the default min_delta   *)
(* of ReduceLROnPlateau); learning rates are powers of ten, kept as the    *)
(* negated exponent.                                                       *)
(***************************************************************************)
EXTENDS Integers, Sequences, FiniteSets, TLC

\* ------------------------------------------------------------------ bounds
\* chunks of 1024 bytes in a response body (line 55)
MaxChunks == 2
\* largest validation loss, in units of 1e-4
MaxLoss == 2
\* largest `epochs` argument of a whole run_training in Spec / SpecEnv
MaxRunEpochs == 2
\* largest `epochs` argument of train_model in SpecTrain
MaxEpochs == 14

\* ------------------------------------------------- constants of the program
\* EarlyStopping(patience=10)
PatienceES == 10
\* ReduceLROnPlateau(patience=5)
PatienceLR == 5
\* ReduceLROnPlateau(min_lr=1e-7): 10^-7
MinLrExp == 7
\* run_training(learning_rate=0.0001): 10^-4
LrExpInit == 4
\* ReduceLROnPlateau(factor=0.1): one decade per reduction
FactorExp == 1
\* ReduceLROnPlateau's default min_delta, 1e-4: one loss unit
MinDeltaLR == 1

RestoreBestWeightsLeftOut == FALSE

\* EarlyStopping(restore_best_weights=True), line 181
RestoreBestWeights == TRUE

SaveBestOnlyLeftOut == FALSE

\* ModelCheckpoint(save_best_only=True), line 183
SaveBestOnly == TRUE

VARIABLES
    fs,     \* the filesystem: download dir, archive, extracted tree, artifacts
    pc,     \* position inside run_training, or "idle" between calls
    last,   \* what the latest DatasetHandler call saw and did
    run,    \* the current (or latest) run_training: steps completed, outcome
    tr      \* train_model: the fit loop and its callbacks

vars == <<fs, pc, last, run, tr>>

\* ------------------------------------------------------------- filesystem
DirStates == {"absent", "partial", "complete"}

\* What zipfile makes of the bytes of a file.  They are no zip (ZipFile
\* raises BadZipFile), or ZipFile opens them and extractall, into the
\* download directory, runs to the end or raises at a damaged member; by then
\* it has put under dataset_dir nothing, a part, or the three splits, has put
\* other files beside it or none, and has or has not written a member over
\* the archive itself (a member named as the archive is).
NotZip ==
    [zip |-> FALSE, raises |-> FALSE, dir |-> "absent", extras |-> FALSE,
     self |-> FALSE]

Readings ==
    {NotZip} \cup
    [zip : {TRUE}, raises : BOOLEAN, dir : DirStates, extras : BOOLEAN,
     self : BOOLEAN]

NoFile == [exists |-> FALSE, written |-> 0, total |-> 0, reads |-> NotZip]

\* A file that holds the first `written` of the `total` chunks of a response
\* body; a file of no bytes is no zip.
Archives ==
    { a \in [exists : {TRUE}, written : 0..MaxChunks, total : 0..MaxChunks,
             reads : Readings] :
        /\ a.written <= a.total
        /\ (a.written = 0 => a.reads = NotZip) }

IsPartial(a) == a.exists /\ a.written < a.total

\* zipfile.ZipFile(file_path, 'r') opens the file: it finds an
\* end-of-central-directory record and a directory in the bytes that are
\* there, be the file whole or cut off.
IsZip(a) == a.exists /\ a.reads.zip

\* a whole zip of the three splits and nothing else
DatasetZip ==
    [zip |-> TRUE, raises |-> FALSE, dir |-> "complete", extras |-> FALSE,
     self |-> FALSE]

\* The files that extractall can leave where archive a was: a itself when no
\* member has its name, else the bytes of that member, which are any file
\* (no zip, an empty zip, a zip of the dataset or of a part of it or of other
\* files, a zip with a member of that name again).
Members(a) ==
    IF IsZip(a) /\ a.reads.self
    THEN { m \in Archives : m.written = m.total }
    ELSE {a}

\* ------------------------------------------------------- download_dataset
NoCut == MaxChunks + 1

\* What requests.get and iter_content do for one request: the connection
\* fails (requests.get raises), or a response arrives, with a success or an
\* error status, whose body streams in `total` chunks and breaks after `cut`
\* of them (cut = NoCut: streams to the end).  A stream that breaks off makes
\* iter_content raise, or, `silent`, just ends the iteration: a body framed
\* by Content-Length under a urllib3 that does not enforce the length (no
\* version is pinned).  `reads` is what zipfile makes of the chunks that
\* arrive; the body of an error response is written like any other.
Received(r) == IF r.cut = NoCut THEN r.total ELSE r.cut

Responses ==
    { r \in [conn : {"ok", "fail"}, status : {"ok", "error"},
             total : 0..MaxChunks, cut : 0..NoCut, silent : BOOLEAN,
             reads : Readings] :
        /\ (r.cut = NoCut \/ r.cut < r.total)
        /\ (r.cut = NoCut => ~r.silent)
        /\ (Received(r) = 0 => r.reads = NotZip)
        /\ (r.conn = "fail" => r.status = "ok" /\ r.total = 0 /\ r.cut = NoCut) }

\* requests.get is reached only past the test of line 48: with the archive
\* there no request is made, the server's answer plays no part in the call,
\* and one response stands for all.
Unasked ==
    [conn |-> "fail", status |-> "ok", total |-> 0, cut |-> NoCut,
     silent |-> FALSE, reads |-> NotZip]

Answers(f) == IF f.archive.exists THEN {Unasked} ELSE Responses

\* How the loop of lines 55-57 ends: the body is through, the stream broke
\* off without a word, or iter_content raised.
StreamEnds(r) == IF r.cut = NoCut \/ r.silent THEN "True" ELSE "raise"

\* os.path.exists(dataset_download_dir) / os.makedirs (lines 45-46)
EnsureDownloadDir(f) == [f EXCEPT !.dlDir = TRUE]

\* The streamed write of lines 54-57: the file is created by open(.., 'wb')
\* and holds the chunks received when the stream ends or breaks; the `with`
\* closes it and removes nothing.
Streamed(r) ==
    [exists |-> TRUE, written |-> Received(r), total |-> r.total, reads |-> r.reads]

DownloadAlwaysFetch(f, r) ==
    LET f1 == EnsureDownloadDir(f) IN
    IF r.conn = "fail"
    THEN [fs |-> f1, result |-> "raise", http |-> 1]
    ELSE [fs |-> [f1 EXCEPT !.archive = Streamed(r)],
          result |-> StreamEnds(r),
          http |-> 1]

DownloadCleansUp(f, r) ==
    LET f1 == EnsureDownloadDir(f) IN
    IF f1.archive.exists
    THEN [fs |-> f1, result |-> "True", http |-> 0]
    ELSE IF r.conn = "fail"
    THEN [fs |-> f1, result |-> "raise", http |-> 1]
    ELSE IF r.cut = NoCut
    THEN [fs |-> [f1 EXCEPT !.archive = Streamed(r)], result |-> "True", http |-> 1]
    ELSE [fs |-> f1, result |-> "raise", http |-> 1]

\* DatasetHandler.download_dataset on filesystem f when the server answers r:
\* the filesystem it leaves, what the call does ("True", "False", or "raise"
\* for an exception that leaves the call), and the requests it made.
download_dataset(f, r) ==
    LET f1 == EnsureDownloadDir(f) IN
    IF f1.archive.exists
    THEN [fs |-> f1, result |-> "True", http |-> 0]
    ELSE IF r.conn = "fail"
    THEN [fs |-> f1, result |-> "raise", http |-> 1]
    ELSE [fs |-> [f1 EXCEPT !.archive = Streamed(r)],
          result |-> StreamEnds(r),
          http |-> 1]

\* ---------------------------------------------------------- unzip_dataset
\* dataset_dir after an extraction that put `new` under it
Merged(old, new) ==
    IF "complete" \in {old, new} THEN "complete"
    ELSE IF "partial" \in {old, new} THEN "partial"
    ELSE "absent"

\* zip_ref.extractall(dataset_download_dir) (lines 75-76) of a file that
\* ZipFile has opened; m, one of Members(f.archive), is the file it leaves
\* where the archive was.
ExtractAll(f, m) ==
    LET x == f.archive.reads
    IN [fs |-> [f EXCEPT !.datasetDir = Merged(@, x.dir),
                         !.extras = @ \/ x.extras,
                         !.archive = m],
        result |-> IF x.raises THEN "raise" ELSE "True"]

UnzipAlwaysExtracts(f, m) ==
    IF ~f.archive.exists
    THEN [fs |-> f, result |-> "False", opened |-> FALSE, extracted |-> FALSE]
    ELSE IF ~IsZip(f.archive)
    THEN [fs |-> f, result |-> "raise", opened |-> TRUE, extracted |-> FALSE]
    ELSE LET x == ExtractAll(f, m)
         IN [fs |-> x.fs, result |-> x.result, opened |-> TRUE, extracted |-> TRUE]

UnzipMissingIsSuccess(f, m) ==
    IF f.datasetDir # "absent"
    THEN [fs |-> f, result |-> "True", opened |-> FALSE, extracted |-> FALSE]
    ELSE IF ~f.archive.exists
    THEN [fs |-> f, result |-> "True", opened |-> FALSE, extracted |-> FALSE]
    ELSE IF ~IsZip(f.archive)
    THEN [fs |-> f, result |-> "raise", opened |-> TRUE, extracted |-> FALSE]
    ELSE LET x == ExtractAll(f, m)
         IN [fs |-> x.fs, result |-> x.result, opened |-> TRUE, extracted |-> TRUE]

\* DatasetHandler.unzip_dataset on filesystem f, where an extraction leaves m
\* in the archive's place: the filesystem it leaves, what the call does,
\* whether it opened the archive and whether it extracted.
unzip_dataset(f, m) ==
    IF f.datasetDir # "absent"
    THEN [fs |-> f, result |-> "True", opened |-> FALSE, extracted |-> FALSE]
    ELSE IF ~f.archive.exists
    THEN [fs |-> f, result |-> "False", opened |-> FALSE, extracted |-> FALSE]
    ELSE IF ~IsZip(f.archive)
    THEN [fs |-> f, result |-> "raise", opened |-> TRUE, extracted |-> FALSE]
    ELSE LET x == ExtractAll(f, m)
         IN [fs |-> x.fs, result |-> x.result, opened |-> TRUE, extracted |-> TRUE]

\* -------------------------------------------------------- load_split_data
\* image_dataset_from_directory on Train, Test and Validation under
\* dataset_dir: raises unless the three directories are there.
load_split_data(f) == IF f.datasetDir = "complete" THEN "ok" ELSE "raise"

\* ------------------------------------------------------------ train_model
Losses == 0..MaxLoss

\* np.inf, the first `best` of a callback that monitors val_loss
Inf == MaxLoss + 1

\* The model's weights, named by the epoch that produced them and the
\* validation loss they scored; epoch 0 is the weights _build_model made.
InitWeights == [epoch |-> 0, valLoss |-> Inf]
NoWeights == [epoch |-> -1, valLoss |-> Inf]

\* before train_model is called
NoTraining ==
    [epochs |-> 0, restoreAtEnd |-> FALSE, epoch |-> 0, stop |-> FALSE,
     done |-> FALSE, weights |-> InitWeights, histLen |-> 0, lrExp |-> LrExpInit,
     esWait |-> 0, esBest |-> Inf, esBestWeights |-> NoWeights, esStopped |-> 0,
     lrWait |-> 0, lrBest |-> Inf, ckBest |-> Inf, ckptWrites |-> 0,
     lastWrote |-> FALSE, lastImproved |-> FALSE, improving |-> 0,
     minSeen |-> Inf, bestEpoch |-> 0, sinceImp |-> 0, tenAt |-> 0,
     imp2 |-> FALSE, imp3 |-> FALSE, writesBy1 |-> 0, writesBy3 |-> 0,
     ckptFile |-> NoWeights]

\* model.fit(epochs=epochs, callbacks=[...]) begins: on_train_begin of the
\* callbacks that train_model has just constructed (lines 181-184).
\* `k` is the Keras at hand: whether its EarlyStopping restores the best
\* weights in on_train_end (current releases) or in on_epoch_end.
OnTrainBegin(t, k) ==
    [NoTraining EXCEPT !.epochs = t.epochs, !.restoreAtEnd = k,
                       !.weights = t.weights, !.lrExp = t.lrExp]

\* keras.callbacks.EarlyStopping(monitor='val_loss', patience=PatienceES,
\* restore_best_weights=RestoreBestWeights).on_epoch_end(t.epoch,
\* {val_loss: cur}); the model's weights are those of the epoch that just
\* ended.  The callback is Keras's: src/ holds its construction only.
EarlyStoppingEpochEnd(t, cur) ==
    LET t0 == IF RestoreBestWeights /\ t.esBestWeights = NoWeights
              THEN [t EXCEPT !.esBestWeights = t.weights] ELSE t
        w == t0.esWait + 1
    IN IF cur < t0.esBest
       THEN [t0 EXCEPT !.esBest = cur, !.esWait = 0,
                       !.esBestWeights = IF RestoreBestWeights THEN t0.weights ELSE @]
       ELSE IF w >= PatienceES /\ t0.epoch > 0
       THEN [t0 EXCEPT !.esWait = w, !.esStopped = t0.epoch, !.stop = TRUE,
                       !.weights = IF t0.restoreAtEnd \/ ~RestoreBestWeights
                                   THEN @ ELSE t0.esBestWeights]
       ELSE [t0 EXCEPT !.esWait = w]

\* keras.callbacks.ReduceLROnPlateau(monitor='val_loss', factor=0.1,
\* patience=5, min_lr=1e-7).on_epoch_end (Keras's, constructed on line 182): an improvement is a loss below best - min_delta; no cooldown.
ReduceLREpochEnd(t, cur) ==
    IF t.lrBest = Inf \/ cur < t.lrBest - MinDeltaLR
    THEN [t EXCEPT !.lrBest = cur, !.lrWait = 0]
    ELSE IF t.lrWait + 1 >= PatienceLR /\ t.lrExp < MinLrExp
    THEN [t EXCEPT !.lrWait = 0,
                   !.lrExp = IF @ + FactorExp > MinLrExp THEN MinLrExp ELSE @ + FactorExp]
    ELSE [t EXCEPT !.lrWait = @ + 1]

\* keras.callbacks.ModelCheckpoint('deepfake_detector_model_best.keras',
\* monitor='val_loss', save_best_only=SaveBestOnly).on_epoch_end: saves the
\* model as it is now, over the file already there; with save_best_only, only
\* when the loss is below its best so far, which starts at np.inf.  On disk
\* the model keeps whether the file exists; what this run's latest write put
\* in it is tr.ckptFile.  The callback is Keras's: src/ holds its
\* construction only.
ModelCheckpointEpochEnd(t, f, cur) ==
    IF ~SaveBestOnly \/ cur < t.ckBest
    THEN [tr |-> [t EXCEPT !.ckBest = IF cur < @ THEN cur ELSE @,
                          !.ckptWrites = @ + 1, !.lastWrote = TRUE,
                          !.ckptFile = t.weights],
          fs |-> [f EXCEPT !.ckpt = TRUE]]
    ELSE [tr |-> [t EXCEPT !.lastWrote = FALSE], fs |-> f]

\* What the run's validation losses say by themselves, kept apart from the
\* callbacks' own bookkeeping: the lowest loss so far and the epoch (counted
\* from 1) that first scored it, the epochs since it last fell, the epoch
\* that completed the first stretch of PatienceES epochs without a fall, and
\* whether epochs 2 and 3 improved.
Observe(t, cur) ==
    LET imp == cur < t.minSeen
        n == t.epoch + 1
        since == IF imp THEN 0 ELSE t.sinceImp + 1
    IN [t EXCEPT !.minSeen = IF imp THEN cur ELSE @,
                 !.bestEpoch = IF imp THEN n ELSE @,
                 !.lastImproved = imp,
                 !.improving = IF imp THEN @ + 1 ELSE @,
                 !.sinceImp = since,
                 !.tenAt = IF @ = 0 /\ since >= PatienceES THEN n ELSE @,
                 !.imp2 = IF n = 2 THEN imp ELSE @,
                 !.imp3 = IF n = 3 THEN imp ELSE @]

\* One pass of the fit loop: the epoch trains and validates (val_loss = cur),
\* then on_epoch_end of History and of the callbacks in the order of line 188.
EpochEnd(t, f, cur) ==
    LET seen == Observe(t, cur)
        t1 == [seen EXCEPT !.weights = [epoch |-> t.epoch + 1, valLoss |-> cur],
                           !.histLen = @ + 1]
        t2 == EarlyStoppingEpochEnd(t1, cur)
        t3 == ReduceLREpochEnd(t2, cur)
        c == ModelCheckpointEpochEnd(t3, f, cur)
        n == t.epoch + 1
    IN [tr |-> [c.tr EXCEPT !.epoch = n,
                            !.writesBy1 = IF n = 1 THEN c.tr.ckptWrites ELSE @,
                            !.writesBy3 = IF n <= 3 THEN c.tr.ckptWrites ELSE @],
        fs |-> c.fs]

\* on_train_end of keras.callbacks.EarlyStopping: current Keras restores the
\* best weights here, earlier releases did it in on_epoch_end when they
\* stopped the run.
OnTrainEnd(t) ==
    [t EXCEPT !.done = TRUE,
              !.weights = IF RestoreBestWeights /\ t.restoreAtEnd
                             /\ t.esBestWeights # NoWeights
                          THEN t.esBestWeights ELSE @]

\* ----------------------------------------------------------- run_training
\* The calls of run_training in the order of lines 244-255.
Steps == <<"download", "unzip", "load", "build", "compile", "train", "evaluate", "save">>

StepAfterSaveBeforeEvaluate(s) ==
    CASE s = "download" -> "unzip"
      [] s = "unzip" -> "load"
      [] s = "load" -> "build"
      [] s = "build" -> "compile"
      [] s = "compile" -> "train"
      [] s = "train" -> "save"
      [] s = "save" -> "evaluate"
      [] OTHER -> "idle"

\* The statement run_training goes on to when call s has returned; after
\* save_model it returns (history, evaluation_metrics).
StepAfter(s) ==
    CASE s = "download" -> "unzip"
      [] s = "unzip" -> "load"
      [] s = "load" -> "build"
      [] s = "build" -> "compile"
      [] s = "compile" -> "train"
      [] s = "train" -> "evaluate"
      [] s = "evaluate" -> "save"
      [] OTHER -> "idle"

PrepContinuesUnlessRaise(result) == result # "raise"

\* `if not self.dataset_handler.download_dataset(): ... return` and the same
\* for unzip_dataset (lines 244-249): run_training goes on when the call
\* returned a true value.
PrepContinues(result) == result = "True"

\* xferFailed: the transfer of the run's download_dataset call failed (the
\* connection, the status of the response, or the stream).
NoRun == [trace |-> <<>>, result |-> "none", finalWrites |-> 0, xferFailed |-> FALSE]

\* What a call found where the archive is: a file or none, cut short or
\* whole, a zip or not, with a member of the archive's own name or without.
Seen(a) ==
    [exists |-> a.exists, partial |-> IsPartial(a), zip |-> IsZip(a),
     self |-> IsZip(a) /\ a.reads.self]

NoCall ==
    [op |-> "none", pre |-> Seen(NoFile), kept |-> TRUE, hadDataset |-> FALSE,
     xfer |-> "none",
     http |-> 0, result |-> "none", opened |-> FALSE, extracted |-> FALSE,
     changed |-> FALSE, prev |-> [op |-> "none", result |-> "none", did |-> FALSE]]

\* The call before: which it was, how it ended, and whether it fetched or
\* extracted anything.
Before(prev) ==
    [op |-> prev.op, result |-> prev.result, did |-> prev.extracted \/ prev.http > 0]

\* How the one request of a download_dataset call went.
Xfer(o, r) ==
    IF o.http = 0 THEN "none"
    ELSE IF r.conn = "fail" THEN "connfail"
    ELSE IF r.cut # NoCut THEN "cut"
    ELSE IF r.status = "error" THEN "errstatus"
    ELSE "clean"

TransferErrors == {"connfail", "errstatus", "cut"}

DownloadCall(f, r, o, prev) ==
    [NoCall EXCEPT !.op = "download", !.pre = Seen(f.archive),
                   !.kept = o.fs.archive = f.archive,
                   !.hadDataset = f.datasetDir # "absent", !.xfer = Xfer(o, r),
                   !.http = o.http, !.result = o.result, !.changed = o.fs # f,
                   !.prev = Before(prev)]

UnzipCall(f, o, prev) ==
    [NoCall EXCEPT !.op = "unzip", !.pre = Seen(f.archive),
                   !.kept = o.fs.archive = f.archive,
                   !.hadDataset = f.datasetDir # "absent", !.result = o.result,
                   !.opened = o.opened, !.extracted = o.extracted,
                   !.changed = o.fs # f, !.prev = Before(prev)]

\* run_training has completed step s and goes on, or returns after the last.
Completed(r, s) ==
    [r EXCEPT !.trace = Append(@, s),
              !.result = IF StepAfter(s) = "idle" THEN "returned" ELSE "running"]

Raised(r) == [r EXCEPT !.result = "raised"]

\* A preparation step (download, unzip) of run_training ended with `result`.
AfterPrep(r, s, result) ==
    IF result = "raise" THEN Raised(r)
    ELSE IF PrepContinues(result) THEN Completed(r, s)
    ELSE [r EXCEPT !.trace = Append(@, s), !.result = "returnedNone"]

PcAfterPrep(s, result) ==
    IF result # "raise" /\ PrepContinues(result) THEN StepAfter(s) ELSE "idle"

\* --------------------------------------------------------------- actions
\* handler.download_dataset() called by itself
CallDownload ==
    /\ pc = "idle"
    /\ \E r \in Answers(fs) :
         LET o == download_dataset(fs, r) IN
         /\ fs' = o.fs
         /\ last' = DownloadCall(fs, r, o, last)
    /\ run' = NoRun
    /\ UNCHANGED <<pc, tr>>

\* handler.unzip_dataset() called by itself
CallUnzip ==
    /\ pc = "idle"
    /\ \E m \in Members(fs.archive) :
         LET o == unzip_dataset(fs, m) IN
         /\ fs' = o.fs
         /\ last' = UnzipCall(fs, o, last)
    /\ run' = NoRun
    /\ UNCHANGED <<pc, tr>>

\* run_training(learning_rate, epochs) is called: line 244
RunDownload ==
    /\ pc = "idle"
    /\ \E r \in Answers(fs) :
         LET o == download_dataset(fs, r) IN
         /\ fs' = o.fs
         /\ last' = DownloadCall(fs, r, o, last)
         /\ run' = [AfterPrep(NoRun, "download", o.result)
                      EXCEPT !.xferFailed = Xfer(o, r) \in TransferErrors]
         /\ pc' = PcAfterPrep("download", o.result)
         /\ IF pc' = "idle" THEN tr' = NoTraining
            ELSE \E n \in 0..MaxRunEpochs : tr' = [NoTraining EXCEPT !.epochs = n]

\* line 247
RunUnzip ==
    /\ pc = "unzip"
    /\ \E m \in Members(fs.archive) :
         LET o == unzip_dataset(fs, m) IN
         /\ fs' = o.fs
         /\ last' = UnzipCall(fs, o, last)
         /\ run' = AfterPrep(run, "unzip", o.result)
         /\ pc' = PcAfterPrep("unzip", o.result)
         /\ tr' = IF pc' = "idle" THEN NoTraining ELSE tr

\* line 250
RunLoad ==
    /\ pc = "load"
    /\ IF load_split_data(fs) = "ok"
       THEN /\ run' = Completed(run, "load")
            /\ pc' = StepAfter("load")
            /\ tr' = tr
       ELSE /\ run' = Raised(run)
            /\ pc' = "idle"
            /\ tr' = NoTraining
    /\ UNCHANGED <<fs, last>>

\* line 251: DeepfakeDetectorModel() builds the network, or raises
RunBuild ==
    /\ pc = "build"
    /\ \E ok \in BOOLEAN :
         IF ok
         THEN /\ run' = Completed(run, "build")
              /\ pc' = StepAfter("build")
              /\ tr' = [tr EXCEPT !.weights = InitWeights]
         ELSE /\ run' = Raised(run)
              /\ pc' = "idle"
              /\ tr' = NoTraining
    /\ UNCHANGED <<fs, last>>

\* line 252: compile_model(learning_rate), or it raises
RunCompile ==
    /\ pc = "compile"
    /\ \E ok \in BOOLEAN :
         IF ok
         THEN /\ run' = Completed(run, "compile")
              /\ pc' = StepAfter("compile")
              /\ tr' = [tr EXCEPT !.lrExp = LrExpInit]
         ELSE /\ run' = Raised(run)
              /\ pc' = "idle"
              /\ tr' = NoTraining
    /\ UNCHANGED <<fs, last>>

\* line 253: train_model is entered, fit begins
TrainBegin ==
    /\ pc = "train"
    /\ \E k \in BOOLEAN : tr' = OnTrainBegin(tr, k)
    /\ pc' = "fit"
    /\ UNCHANGED <<fs, last, run>>

\* one epoch of fit, with validation loss cur
TrainEpoch ==
    /\ pc = "fit"
    /\ ~tr.stop
    /\ tr.epoch < tr.epochs
    /\ \E cur \in Losses :
         LET e == EpochEnd(tr, fs, cur) IN
         /\ tr' = e.tr
         /\ fs' = e.fs
    /\ UNCHANGED <<pc, last, run>>

\* an epoch raises (a bad image file, memory): fit, train_model and
\* run_training are left by the exception
TrainRaise ==
    /\ pc = "fit"
    /\ ~tr.stop
    /\ tr.epoch < tr.epochs
    /\ run' = Raised(run)
    /\ pc' = "idle"
    /\ tr' = NoTraining
    /\ UNCHANGED <<fs, last>>

\* the fit loop ends: every epoch ran, or a callback set stop_training
TrainEnd ==
    /\ pc = "fit"
    /\ (tr.stop \/ tr.epoch = tr.epochs)
    /\ tr' = OnTrainEnd(tr)
    /\ run' = Completed(run, "train")
    /\ pc' = StepAfter("train")
    /\ UNCHANGED <<fs, last>>

\* line 254: evaluate_model(test_data) returns the metrics, or raises
RunEvaluate ==
    /\ pc = "evaluate"
    /\ \E ok \in BOOLEAN :
         IF ok
         THEN /\ run' = Completed(run, "evaluate")
              /\ pc' = StepAfter("evaluate")
              /\ tr' = IF pc' = "idle" THEN NoTraining ELSE tr
         ELSE /\ run' = Raised(run)
              /\ pc' = "idle"
              /\ tr' = NoTraining
    /\ UNCHANGED <<fs, last>>

\* line 255: save_model('deepfake_detector_model.keras') writes the file, and
\* line 256 returns; or model.save raises (no room, no permission) and
\* run_training is left by the exception with nothing written
RunSave ==
    /\ pc = "save"
    /\ \E ok \in BOOLEAN :
         IF ok
         THEN /\ fs' = [fs EXCEPT !.final = TRUE]
              /\ run' = [Completed(run, "save") EXCEPT !.finalWrites = @ + 1]
              /\ pc' = StepAfter("save")
              /\ tr' = IF pc' = "idle" THEN NoTraining ELSE tr
         ELSE /\ fs' = fs
              /\ run' = Raised(run)
              /\ pc' = "idle"
              /\ tr' = NoTraining
    /\ UNCHANGED last

\* another process removes the archive (the filesystem is shared)
EnvRemoveArchive ==
    /\ fs.archive.exists
    /\ fs' = [fs EXCEPT !.archive = NoFile]
    /\ UNCHANGED <<pc, last, run, tr>>

\* download_dataset when the other process removes the file while the body
\* streams into it (after the open of line 54): the writes go on into the
\* unlinked file, and the call ends as it would have, with no archive left.
download_raced(f, r) ==
    LET o == download_dataset(f, r)
    IN [o EXCEPT !.fs = [o.fs EXCEPT !.archive = NoFile]]

\* unzip_dataset when the other process removes the archive after the test of
\* line 72 and before the open of line 75: ZipFile raises FileNotFoundError.
unzip_raced(f) ==
    [fs |-> [f EXCEPT !.archive = NoFile], result |-> "raise",
     opened |-> FALSE, extracted |-> FALSE]

\* line 244, the archive removed under the running download
RunDownloadRaced ==
    /\ pc = "idle"
    /\ ~fs.archive.exists
    /\ \E r \in Responses :
         LET o == download_raced(fs, r) IN
         /\ r.conn = "ok"
         /\ fs' = o.fs
         /\ last' = DownloadCall(fs, r, o, last)
         /\ run' = [AfterPrep(NoRun, "download", o.result)
                      EXCEPT !.xferFailed = Xfer(o, r) \in TransferErrors]
         /\ pc' = PcAfterPrep("download", o.result)
         /\ IF pc' = "idle" THEN tr' = NoTraining
            ELSE \E n \in 0..MaxRunEpochs : tr' = [NoTraining EXCEPT !.epochs = n]

\* line 247, the archive removed between the test and the open
RunUnzipRaced ==
    /\ pc = "unzip"
    /\ fs.datasetDir = "absent"
    /\ fs.archive.exists
    /\ LET o == unzip_raced(fs) IN
         /\ fs' = o.fs
         /\ last' = UnzipCall(fs, o, last)
         /\ run' = AfterPrep(run, "unzip", o.result)
         /\ pc' = PcAfterPrep("unzip", o.result)
         /\ tr' = IF pc' = "idle" THEN NoTraining ELSE tr

\* ------------------------------------------------------- specifications
\* What can be on disk when the program starts: nothing, or what earlier
\* complete downloads and extractions left.
InitFS ==
    { f \in [dlDir : BOOLEAN, archive : Archives \cup {NoFile},
             datasetDir : DirStates, extras : {FALSE},
             ckpt : {FALSE}, final : {FALSE}] :
        /\ (f.archive.exists => f.dlDir /\ ~IsPartial(f.archive)) }

Init ==
    /\ fs \in InitFS
    /\ pc = "idle"
    /\ last = NoCall
    /\ run = NoRun
    /\ tr = NoTraining

NextTrain == TrainBegin \/ TrainEpoch \/ TrainRaise \/ TrainEnd

NextRun ==
    \/ RunDownload \/ RunUnzip \/ RunLoad \/ RunBuild \/ RunCompile
    \/ NextTrain
    \/ RunEvaluate \/ RunSave

Next == CallDownload \/ CallUnzip \/ NextRun

\* the program alone on its filesystem
Spec == Init /\ [][Next]_vars

\* run_training, run again and again as the script does, beside a process
\* that may remove the archive, between the calls or inside one
NextEnv == NextRun \/ EnvRemoveArchive \/ RunDownloadRaced \/ RunUnzipRaced

SpecEnv == Init /\ [][NextEnv]_vars

\* train_model(train_data, val_data, epochs) on a compiled model, as line 253
\* calls it in a run that found the dataset downloaded and extracted: the
\* state of Spec after RunDownload, RunUnzip, RunLoad, RunBuild and RunCompile
\* from the initial filesystem CachedFS
CachedFS ==
    [dlDir |-> TRUE,
     archive |-> [exists |-> TRUE, written |-> 1, total |-> 1,
                  reads |-> DatasetZip],
     datasetDir |-> "complete", extras |-> FALSE, ckpt |-> FALSE,
     final |-> FALSE]

InitTrain ==
    /\ fs = CachedFS
    /\ pc = "train"
    /\ last = UnzipCall(CachedFS,
                         unzip_dataset(CachedFS, CachedFS.archive),
                         DownloadCall(CachedFS, Unasked,
                                      download_dataset(CachedFS, Unasked), NoCall))
    /\ run = [NoRun EXCEPT !.trace = SubSeq(Steps, 1, 5), !.result = "running"]
    /\ \E n \in 0..MaxEpochs : tr = [NoTraining EXCEPT !.epochs = n]

SpecTrain == InitTrain /\ [][NextTrain]_vars

\* ---------------------------------------------------------------- claims
InRun == run.result # "none"

Extracted(c) == c.op = "unzip" /\ c.did /\ c.result = "True"

\* C1: a download_dataset call that finds the archive on disk makes no HTTP
\* request, leaves the filesystem (the archive with it) as it was and returns
\* True; so does the second of two calls in a row.
C1_DownloadIdempotent ==
    (last.op = "download" /\ last.pre.exists) =>
        /\ last.http = 0
        /\ ~last.changed
        /\ last.kept
        /\ last.result = "True"

\* the second of two calls in a row, the first of which fetched the archive
C1_Witness ==
    /\ last.op = "download"
    /\ last.prev.op = "download" /\ last.prev.did /\ last.prev.result = "True"
    /\ last.pre.exists
    /\ last.http = 0
    /\ last.result = "True"

\* An unzip_dataset call that finds dataset_dir extracts nothing, changes
\* nothing and returns True, with or without the archive.
UnzipShortCircuits ==
    (last.op = "unzip" /\ last.hadDataset) =>
        /\ ~last.opened
        /\ ~last.extracted
        /\ ~last.changed
        /\ last.result = "True"

\* C2 as stated: the short circuit, and a second call after a successful
\* extraction extracts nothing.
C2_Original ==
    /\ UnzipShortCircuits
    /\ (last.op = "unzip" /\ Extracted(last.prev)) => ~last.extracted

\* C2 as amended: the short circuit, and a second call after a successful
\* extraction that left dataset_dir in place extracts nothing; after one that
\* did not create dataset_dir the archive is opened again, and extracted
\* again when it is a zip.
C2_UnzipIdempotent ==
    /\ UnzipShortCircuits
    /\ (last.op = "unzip" /\ Extracted(last.prev)) =>
            /\ last.hadDataset => ~last.extracted
            /\ ~last.hadDataset =>
                    (last.opened /\ (last.extracted <=> last.pre.zip))

\* the second call after an extraction that created dataset_dir
C2_Witness ==
    /\ last.op = "unzip"
    /\ Extracted(last.prev)
    /\ last.hadDataset
    /\ ~last.extracted
    /\ last.result = "True"

\* C3: when download_dataset or unzip_dataset returns False inside
\* run_training, run_training returns None there: the failed call is its last
\* step, and no split is loaded, no model built, trained, evaluated or saved.
C3_AbortsOnFalse ==
    (InRun /\ last.result = "False") =>
        /\ run.result = "returnedNone"
        /\ pc = "idle"
        /\ run.trace \in {<<"download">>, <<"download", "unzip">>}
        /\ run.trace[Len(run.trace)] = last.op
        /\ run.finalWrites = 0
        /\ tr = NoTraining

\* unzip_dataset returned False in a run (the archive went after the download)
C3_Witness ==
    /\ run.result = "returnedNone"
    /\ last.op = "unzip"
    /\ last.result = "False"
    /\ run.trace = <<"download", "unzip">>

\* C4: a download_dataset call whose transfer errors (connection failure,
\* error response, stream broken off) does not return True, and makes one
\* request at most.
C4_TransferErrorFails ==
    (last.op = "download" /\ last.xfer \in {"connfail", "errstatus", "cut"}) =>
        /\ last.result # "True"
        /\ last.http <= 1

\* C5: unzip_dataset returns False when neither dataset_dir nor the archive
\* exists, extracting and changing nothing, and in no other case: every other
\* call that returns, returns True.
C5_MissingArchiveIsFalse ==
    last.op = "unzip" =>
        /\ (last.result = "False") <=> (~last.hadDataset /\ ~last.pre.exists)
        /\ last.result = "False" => (~last.opened /\ ~last.extracted /\ ~last.changed)
        /\ last.result \in {"True", "False", "raise"}

C5_Witness ==
    /\ last.op = "unzip"
    /\ ~last.hadDataset
    /\ ~last.pre.exists
    /\ last.result = "False"
    /\ ~last.changed

\* A checkpoint is written at the end of an epoch exactly when the epoch's
\* validation loss is below that of every earlier epoch of the run (the first
\* epoch has none before it), so the writes of a run are as many as its
\* improving epochs, and the file holds the model of the latest of them.
CheckpointIffImproved ==
    (pc # "train" /\ tr.epoch >= 1) =>
        /\ tr.lastWrote <=> tr.lastImproved
        /\ tr.ckptWrites = tr.improving
        /\ tr.ckptFile.valLoss = tr.minSeen
        /\ tr.ckptFile.epoch = tr.bestEpoch

\* C6 as stated: and a run that improves on epoch 2 but not on epoch 3 has
\* written one checkpoint by the end of epoch 3.
C6_Original ==
    /\ CheckpointIffImproved
    /\ (tr.epoch >= 3 /\ tr.imp2 /\ ~tr.imp3) => tr.writesBy3 = 1

\* C6 as amended: such a run writes one checkpoint in epochs 2 and 3 (at
\* epoch 2, none at epoch 3), after the write of epoch 1: two by the end of
\* epoch 3.
C6_CheckpointWrites ==
    /\ CheckpointIffImproved
    /\ (tr.epoch >= 3 /\ tr.imp2 /\ ~tr.imp3) =>
            /\ tr.writesBy1 = 1
            /\ tr.writesBy3 - tr.writesBy1 = 1
            /\ tr.writesBy3 = 2

C6_Witness ==
    /\ tr.epoch = 3
    /\ tr.imp2
    /\ ~tr.imp3
    /\ ~tr.lastWrote
    /\ tr.writesBy3 = 2

StoppedEarly == tr.done /\ tr.epoch < tr.epochs

\* train_model runs `epochs` epochs at most, its history has an entry for
\* each epoch run, and after an early stop the model has the weights of the
\* epoch that first scored the lowest validation loss of the run.
TrainBounded ==
    /\ tr.epoch <= tr.epochs
    /\ tr.histLen = tr.epoch
    /\ StoppedEarly =>
            /\ tr.weights.epoch = tr.bestEpoch
            /\ tr.weights.epoch \in 1..tr.epoch
            /\ tr.weights.valLoss = tr.minSeen

\* C7 as stated: and it stops before `epochs` exactly when the validation
\* loss has gone 10 epochs in a row without improving.
C7_Original ==
    /\ TrainBounded
    /\ tr.done => (tr.epoch < tr.epochs <=> tr.tenAt > 0)

\* C7 as amended: it stops before `epochs` exactly when the tenth epoch in a
\* row without improvement comes before epoch `epochs`, and then right at
\* that epoch; when that tenth epoch is epoch `epochs` itself all `epochs`
\* epochs have run.
C7_EarlyStopping ==
    /\ TrainBounded
    /\ tr.done => (tr.epoch < tr.epochs <=> (tr.tenAt > 0 /\ tr.tenAt < tr.epochs))
    /\ StoppedEarly => tr.epoch = tr.tenAt

\* stopped ten epochs after the best one, which was not the first, and back
\* on the weights of that epoch
C7_Witness ==
    /\ StoppedEarly
    /\ tr.bestEpoch > 1
    /\ tr.epoch = tr.bestEpoch + PatienceES
    /\ tr.weights.epoch = tr.bestEpoch
    /\ tr.histLen = tr.epoch

\* the order of the calls as the claim gives it
ClaimedOrder ==
    <<"download", "unzip", "load", "build", "compile", "train", "evaluate", "save">>

\* C8: the steps of a run complete in the order download, unzip, load, build,
\* compile, train, evaluate, save, each begun after the one before it; the
\* final artifact is written once at most, after training and evaluation; a
\* run left by an error has not written it.
C8_FixedOrder ==
    /\ Len(run.trace) <= Len(ClaimedOrder)
    /\ \A i \in 1..Len(run.trace) : run.trace[i] = ClaimedOrder[i]
    /\ run.result = "running" =>
            LET next == ClaimedOrder[Len(run.trace) + 1]
            IN pc = next \/ (pc = "fit" /\ next = "train")
    /\ run.result # "running" => pc = "idle"
    /\ run.finalWrites <= 1
    /\ run.finalWrites = 1 <=> run.result = "returned"
    /\ run.result = "returned" => run.trace = ClaimedOrder
    /\ run.result = "raised" => run.finalWrites = 0

\* evaluate_model raised after a completed training: nothing was saved
C8_Witness ==
    /\ run.result = "raised"
    /\ run.trace = SubSeq(ClaimedOrder, 1, 6)
    /\ run.finalWrites = 0
    /\ ~fs.final

\* What C9 says of download_dataset: a download broken off after the file was
\* created leaves the partial file, whether the call raised or returned; a
\* later download_dataset finds it, returns True with no request and leaves
\* it as it is.
PartialStays ==
    /\ (last.op = "download" /\ last.xfer = "cut") =>
            (IsPartial(fs.archive) /\ last.result \in {"raise", "True"})
    /\ (last.op = "download" /\ last.pre.partial) =>
            /\ last.result = "True"
            /\ last.http = 0
            /\ last.kept

\* C9 as stated: and a later unzip_dataset operates on the partial archive,
\* that is, opens it.
C9_Original ==
    /\ PartialStays
    /\ (last.op = "unzip" /\ last.pre.partial) => last.opened

\* C9 as amended: a later unzip_dataset that finds no dataset_dir opens the
\* partial file, and extracts from it when zipfile can read what is there (the
\* bytes that arrived hold a zip of their own), leaving the partial file as it
\* is unless the extraction writes a member over it; a later unzip_dataset
\* that finds dataset_dir returns True and does not touch the partial file.
C9_PartialKept ==
    /\ PartialStays
    /\ (last.op = "unzip" /\ last.pre.partial /\ ~last.hadDataset) =>
            /\ last.opened
            /\ ~last.pre.self => last.kept
            /\ last.extracted <=> last.pre.zip
            /\ ~last.pre.zip => (last.result = "raise" /\ ~last.changed)
    /\ (last.op = "unzip" /\ last.pre.partial /\ last.hadDataset) =>
            /\ ~last.opened
            /\ last.kept
            /\ last.result = "True"

\* unzip_dataset on a partial archive, right after a download_dataset that
\* returned True without fetching
C9_Witness ==
    /\ last.op = "unzip"
    /\ last.pre.partial
    /\ last.opened
    /\ last.prev.op = "download" /\ last.prev.result = "True" /\ ~last.prev.did

\* C10: download_dataset never returns False, and when it returns True the
\* archive exists; with the filesystem left alone run_training never returns
\* None; a run whose download transfer failed (connection, error status,
\* stream broken off) or whose extraction failed ends as a raised error.
C10_NeverFalse ==
    /\ last.op = "download" =>
            /\ last.result \in {"True", "raise"}
            /\ last.result = "True" => fs.archive.exists
    /\ run.result # "returnedNone"
    /\ (InRun /\ last.op = "unzip" /\ last.result # "True") =>
            (last.result = "raise" /\ run.result = "raised" /\ pc = "idle")
    /\ (run.xferFailed /\ run.result # "running") => run.result = "raised"

====
